---- MODULE Spec2Model ----
(***************************************************************************)
(* Model of libmbse's ModelDefinition / CAssembledRigidModel and of the    *)
(* gyroscope factor (FactorGyroscope::evaluateError).                      *)
(*                                                                         *)
(* Indices are 0-based as in the C++ code; a std::vector or Eigen vector   *)
(* is a TLA+ sequence and element i of the code is element i+1 here.       *)
(* A double is an extended rational [n, d] with d >= 0: d = 0 and n # 0 is *)
(* +-Inf, d = 0 and n = 0 is NaN (rounding is not modelled).               *)
(***************************************************************************)
EXTENDS Integers, Sequences, FiniteSets, TLC

VARIABLES
    def,    \* the ModelDefinition: points_, bodies_, constraints_, flag
    arm,    \* the assembled models, by name ("a", "b"); NoModel if none
    ret,    \* what the last operation returned (or the failure it raised)
    nops    \* number of calls made on the models' interface so far

vars == <<def, arm, ret, nops>>

-----------------------------------------------------------------------------
(* Bounds of the model *)

\* coordinates and velocities written by callers range over 0..MaxVal
MaxVal == 1

\* number of calls on the models' interface explored from the initial state
MaxOps == 2

\* number of calls made on a definition while it is authored and assembled
MaxSteps == 3

\* a definition has at most MaxPoints points
MaxPoints == 4

Values == 0..MaxVal

-----------------------------------------------------------------------------
(* Generic helpers *)

Abs(x) == IF x < 0 THEN -x ELSE x

Sgn(x) == IF x < 0 THEN -1 ELSE IF x > 0 THEN 1 ELSE 0

RECURSIVE GCD(_, _)
GCD(a, b) == IF b = 0 THEN a ELSE GCD(b, a % b)

\* element i (0-based) of a vector
At(vec, i) == vec[i + 1]

\* a vector of n zeros (Eigen's setZero(n))
Zeros(n) == [i \in 1..n |-> 0]

-----------------------------------------------------------------------------
(* Doubles as extended rationals *)

RNorm(r) ==
    IF r.d = 0 THEN [n |-> Sgn(r.n), d |-> 0]
    ELSE LET s == IF r.d < 0 THEN -1 ELSE 1
             g == GCD(Abs(r.n), Abs(r.d))
         IN  [n |-> (s * r.n) \div g, d |-> (s * r.d) \div g]

R(i) == [n |-> i, d |-> 1]

NaN == [n |-> 0, d |-> 0]

IsFinite(r) == r.d # 0

IsNaN(r) == r.d = 0 /\ r.n = 0

RMul(a, b) == RNorm([n |-> a.n * b.n, d |-> a.d * b.d])

RAdd(a, b) ==
    IF a.d = 0 /\ b.d = 0
    THEN (IF a.n = b.n THEN a ELSE NaN)
    ELSE RNorm([n |-> a.n * b.d + b.n * a.d, d |-> a.d * b.d])

RNeg(a) == [n |-> -a.n, d |-> a.d]

RSub(a, b) == RAdd(a, RNeg(b))

\* 1.0 / a
RInv(a) ==
    IF a.n < 0 THEN RNorm([n |-> -a.d, d |-> -a.n])
    ELSE RNorm([n |-> a.d, d |-> a.n])

-----------------------------------------------------------------------------
(* Data of the model definition *)

INVALID_DOF == -1

\* {0, -9.81, 0}
DEFAULT_GRAVITY == <<R(0), [n |-> -981, d |-> 100], R(0)>>

Point2(x, y, fixed) == [x |-> x, y |-> y, fixed |-> fixed]

\* a Body: point indices, declared length, mass and local centre of gravity
Body(points, length, mass, cogx, cogy) ==
    [points |-> points, length |-> length, mass |-> mass,
     cogx |-> cogx, cogy |-> cogy]

NaturalCoordDOF(p, axis) == [point_index |-> p, point_dof |-> axis]

RelativeAngleDOF(p0, p1, p2) ==
    [type |-> "RelativeAngleDOF",
     point_idx0 |-> p0, point_idx1 |-> p1, point_idx2 |-> p2]

RelativeAngleAbsoluteDOF(p0, p1) ==
    [type |-> "RelativeAngleAbsoluteDOF", point_idx0 |-> p0, point_idx1 |-> p1]

\* a constant-distance constraint between points i and j; its length is kept
\* squared (the norm of integer coordinates need not be rational)
ConstraintConstantDistance(i, j, lenSq) ==
    [kind |-> "ConstantDistance", pts |-> <<i, j>>, lenSq |-> lenSq]

EmptyDefinition ==
    [points |-> <<>>, bodies |-> <<>>, constraints |-> <<>>,
     already_added_fixed_len_constraints |-> FALSE]

NoModel == [ok |-> FALSE]

NoRet == [op |-> "none"]

-----------------------------------------------------------------------------
(* ModelDefinition::assembleRigidMBS(TSymbolicAssembledModel&) *)

\* step 1: two natural-coordinate DOFs (x, then y) per point that is not fixed
RECURSIVE FreePointDOFs(_, _)
FreePointDOFs(points, i) ==
    IF i >= Len(points) THEN <<>>
    ELSE (IF ~At(points, i).fixed
          THEN <<NaturalCoordDOF(i, "X"), NaturalCoordDOF(i, "Y")>>
          ELSE <<>>) \o FreePointDOFs(points, i + 1)

\* the pairs (0,j), (1,j) for j = from..n-1
RECURSIVE PairsFrom(_, _)
PairsFrom(from, n) ==
    IF from >= n THEN <<>>
    ELSE <<<<0, from>>, <<1, from>>>> \o PairsFrom(from + 1, n)

\* the three pairs of a triangle for every body of more than two points
BodyPairsTriangle(n) ==
    IF n = 2 THEN <<<<0, 1>>>> ELSE <<<<0, 1>>, <<0, 2>>, <<1, 2>>>>

\* the local point pairs joined by constant-distance constraints (n >= 2)
BodyPairs(n) == <<<<0, 1>>>> \o PairsFrom(2, n)

\* squared distance between the static coordinates of two points
StaticDistSq(points, i, j) ==
    LET a == At(points, i)
        b == At(points, j)
    IN  (a.x - b.x) * (a.x - b.x) + (a.y - b.y) * (a.y - b.y)

\* the constraint's length for one pair: the declared length for a two-point
\* body, the distance of the static coordinates otherwise
PairLenSq(points, b, pr) ==
    IF Len(b.points) = 2 THEN b.length * b.length
    ELSE StaticDistSq(points, At(b.points, pr[1]), At(b.points, pr[2]))

\* adds the constraints of pairs k.. of body b to cs; stops (ok = FALSE) at
\* the first pair with a point index out of range, keeping what was added
RECURSIVE AddPairConstraints(_, _, _, _, _)
AddPairConstraints(points, b, pairs, k, cs) ==
    IF k > Len(pairs) THEN [ok |-> TRUE, constraints |-> cs]
    ELSE LET i == At(b.points, pairs[k][1])
             j == At(b.points, pairs[k][2])
         IN  IF ~(i < Len(points) /\ j < Len(points))
             THEN [ok |-> FALSE, constraints |-> cs]
             ELSE AddPairConstraints(points, b, pairs, k + 1,
                      Append(cs, ConstraintConstantDistance(
                                     i, j, PairLenSq(points, b, pairs[k]))))

\* step 2, the loop over bodies i..: a body with 0 or 1 points throws, and
\* the constraints added for the bodies before it stay in the list
RECURSIVE AddBodyConstraints(_, _, _, _)
AddBodyConstraints(points, bodies, i, cs) ==
    IF i >= Len(bodies) THEN [ok |-> TRUE, constraints |-> cs]
    ELSE LET b == At(bodies, i)
         IN  IF Len(b.points) < 2 THEN [ok |-> FALSE, constraints |-> cs]
             ELSE LET r == AddPairConstraints(
                               points, b, BodyPairs(Len(b.points)), 1, cs)
                  IN  IF ~r.ok THEN r
                      ELSE AddBodyConstraints(points, bodies, i + 1,
                                              r.constraints)

\* a call that adds the closure constraints whether or not they are in
AssembleSymbolicUnguarded(defn) ==
    LET r == AddBodyConstraints(defn.points, defn.bodies, 0, defn.constraints)
    IN  [ok |-> r.ok,
         def |-> [defn EXCEPT !.constraints = r.constraints,
                              !.already_added_fixed_len_constraints = r.ok],
         DOFs |-> FreePointDOFs(defn.points, 0)]

\* the whole call: [ok, def (the definition afterwards), DOFs (armi.DOFs)]
AssembleSymbolic(defn) ==
    LET dofs == FreePointDOFs(defn.points, 0)
    IN  IF defn.already_added_fixed_len_constraints
        THEN [ok |-> TRUE, def |-> defn, DOFs |-> dofs]
        ELSE LET r == AddBodyConstraints(defn.points, defn.bodies, 0,
                                         defn.constraints)
             IN  [ok |-> r.ok,
                  def |-> [defn EXCEPT
                      !.constraints = r.constraints,
                      !.already_added_fixed_len_constraints = r.ok],
                  DOFs |-> dofs]

-----------------------------------------------------------------------------
(* Authoring a ModelDefinition *)

\* ModelDefinition::addBody, the returned body then filled in by the caller
\* (body); rejected once the closure constraints are in. [ok, def]
addBody(defn, body) ==
    IF defn.already_added_fixed_len_constraints
    THEN [ok |-> FALSE, def |-> defn]
    ELSE [ok |-> TRUE, def |-> [defn EXCEPT !.bodies = Append(@, body)]]

\* ModelDefinition::clear: a blank definition
clear(defn) == EmptyDefinition

\* ModelDefinition::setPointCoords. [ok, def]
setPointCoords(defn, i, coords, is_fixed) ==
    IF ~(i < Len(defn.points)) THEN [ok |-> FALSE, def |-> defn]
    ELSE [ok |-> TRUE,
          def |-> [defn EXCEPT
                      !.points[i + 1] = Point2(coords.x, coords.y, is_fixed)]]

-----------------------------------------------------------------------------
(* CAssembledRigidModel::CAssembledRigidModel(armi) *)

\* a two-point constraint for every relative DOF, whatever its variant
RelativeConstraintTwoPoint(rd, idxInQ) ==
    [kind |-> "RelativeAngleAbsolute",
     pts |-> <<rd.point_idx0, rd.point_idx1>>, dof |-> idxInQ]

\* the constraint generated for relative DOF rd, bound to column idxInQ
RelativeConstraint(rd, idxInQ) ==
    IF rd.type = "RelativeAngleDOF"
    THEN [kind |-> "RelativeAngle",
          pts |-> <<rd.point_idx0, rd.point_idx1, rd.point_idx2>>,
          dof |-> idxInQ]
    ELSE [kind |-> "RelativeAngleAbsolute",
          pts |-> <<rd.point_idx0, rd.point_idx1>>, dof |-> idxInQ]

\* a map that files every DOF of a point under both axes
DofColumnAnyAxis(DOFs, p, axis) ==
    LET cols == {i \in 0..(Len(DOFs) - 1) : At(DOFs, i).point_index = p}
    IN  IF cols = {} THEN INVALID_DOF
        ELSE CHOOSE i \in cols : \A k \in cols : k <= i

\* the column i (largest, the loop overwrites) with DOFs[i] = (p, axis)
DofColumn(DOFs, p, axis) ==
    LET cols == {i \in 0..(Len(DOFs) - 1) :
                    At(DOFs, i) = NaturalCoordDOF(p, axis)}
    IN  IF cols = {} THEN INVALID_DOF
        ELSE CHOOSE i \in cols : \A k \in cols : k <= i

\* q as setZero leaves it, the loop over the Euclidean DOFs skipped
InitialQZero(points, DOFs, nDOFs) == [k \in 1..nDOFs |-> 0]

\* q after the loop over the Euclidean DOFs, relative entries left zero
InitialQ(points, DOFs, nDOFs) ==
    [k \in 1..nDOFs |->
        IF k > Len(DOFs) THEN 0
        ELSE LET pt == At(points, DOFs[k].point_index)
             IN  IF DOFs[k].point_dof = "X" THEN pt.x ELSE pt.y]

\* the number of buildSparseStructures calls each of the n constraints has
\* received when the final loop over constraints_ ends
BuildCalls(n) == [k \in 1..n |-> 1]

\* the row counts of Phi, dotPhi and the sparse Jacobians once every
\* constraint's buildSparseStructures has appended its row
SparseRows(n) ==
    [Phi |-> n, dotPhi |-> n, Phi_q |-> n, dotPhi_q |-> n, dPhiqdq_dq |-> n,
     Phiqq_times_dq |-> n, d_dotPhiq_ddq_times_dq |-> n]

\* the constructor without its check of the number of Euclidean DOFs
ConstructAnySize(defn, DOFs, rDOFs) ==
    [ok |-> TRUE, DOFs |-> DOFs, rDOFs |-> rDOFs,
     q |-> InitialQ(defn.points, DOFs, Len(DOFs) + Len(rDOFs)),
     dotq |-> Zeros(Len(DOFs) + Len(rDOFs)),
     ddotq |-> Zeros(Len(DOFs) + Len(rDOFs)),
     Q |-> Zeros(Len(DOFs) + Len(rDOFs)),
     points2DOFs |->
         [p \in 1..Len(defn.points) |->
             [dof_x |-> DofColumn(DOFs, p - 1, "X"),
              dof_y |-> DofColumn(DOFs, p - 1, "Y")]],
     constraints |->
         defn.constraints \o
         [k \in 1..Len(rDOFs) |->
             RelativeConstraint(rDOFs[k], Len(DOFs) + k - 1)],
     relCoordinate2Index |-> [k \in 1..Len(rDOFs) |-> Len(DOFs) + k - 1],
     ncols |-> Len(DOFs) + Len(rDOFs),
     rows |-> SparseRows(Len(defn.constraints) + Len(rDOFs)),
     built |-> BuildCalls(Len(defn.constraints) + Len(rDOFs)),
     gravity |-> DEFAULT_GRAVITY]

Construct(defn, DOFs, rDOFs) ==
    LET nEuclideanDOFs == Len(DOFs)
        nDOFs == nEuclideanDOFs + Len(rDOFs)
    IN  IF ~(nEuclideanDOFs > 0) THEN NoModel
        ELSE IF \E k \in 1..nEuclideanDOFs :
                    \/ ~(DOFs[k].point_index < Len(defn.points))
                    \/ DOFs[k].point_dof \notin {"X", "Y"}
        THEN NoModel
        ELSE IF \E k \in 1..Len(rDOFs) :
                    rDOFs[k].type \notin
                        {"RelativeAngleDOF", "RelativeAngleAbsoluteDOF"}
        THEN NoModel
        ELSE [ok |-> TRUE,
              DOFs |-> DOFs,
              rDOFs |-> rDOFs,
              q |-> InitialQ(defn.points, DOFs, nDOFs),
              dotq |-> Zeros(nDOFs),
              ddotq |-> Zeros(nDOFs),
              Q |-> Zeros(nDOFs),
              points2DOFs |->
                  [p \in 1..Len(defn.points) |->
                      [dof_x |-> DofColumn(DOFs, p - 1, "X"),
                       dof_y |-> DofColumn(DOFs, p - 1, "Y")]],
              constraints |->
                  defn.constraints \o
                  [k \in 1..Len(rDOFs) |->
                      RelativeConstraint(rDOFs[k], nEuclideanDOFs + k - 1)],
              relCoordinate2Index |->
                  [k \in 1..Len(rDOFs) |-> nEuclideanDOFs + k - 1],
              ncols |-> nDOFs,
              rows |-> SparseRows(Len(defn.constraints) + Len(rDOFs)),
              built |-> BuildCalls(Len(defn.constraints) + Len(rDOFs)),
              gravity |-> DEFAULT_GRAVITY]

\* ModelDefinition::assembleRigidMBS(relativeCoordinates): the symbolic
\* assembly, then the constructor; [ok, def, model]
AssembleRigidMBS(defn, relativeCoordinates) ==
    LET s == AssembleSymbolic(defn)
    IN  IF ~s.ok THEN [ok |-> FALSE, def |-> s.def, model |-> NoModel]
        ELSE LET m == Construct(s.def, s.DOFs, relativeCoordinates)
             IN  [ok |-> m.ok, def |-> s.def, model |-> m]

-----------------------------------------------------------------------------
(* Reading the state of an assembled model *)

\* the DOF columns the point-to-DOF map holds (the valid ones)
MappedColumns(m) ==
    {c \in {m.points2DOFs[p].dof_x : p \in 1..Len(m.points2DOFs)} \cup
           {m.points2DOFs[p].dof_y : p \in 1..Len(m.points2DOFs)} :
        c # INVALID_DOF}

\* the mapped columns that lie beyond the end of vec
BeyondEnd(m, vec) == {c \in MappedColumns(m) : c >= Len(vec)}

\* what may lie in memory beyond the end of q and of dotq, at the columns a
\* read can reach there: any one value, the same at every such column
Garbage(m) ==
    {[q |-> [c \in BeyondEnd(m, m.q) |-> v],
      dotq |-> [c \in BeyondEnd(m, m.dotq) |-> v]] : v \in Values}

\* vec[i] as Eigen reads it: beyond the end it is whatever lies there (mem)
ReadVec(vec, i, mem) == IF i < Len(vec) THEN At(vec, i) ELSE mem[i]

\* CAssembledRigidModel::getPointCurrentCoords
getPointCurrentCoords(defn, m, pt_idx, g) ==
    LET pt_info == At(defn.points, pt_idx)
        pt_dofs == At(m.points2DOFs, pt_idx)
    IN  [x |-> IF pt_dofs.dof_x # INVALID_DOF
               THEN ReadVec(m.q, pt_dofs.dof_x, g.q) ELSE pt_info.x,
         y |-> IF pt_dofs.dof_y # INVALID_DOF
               THEN ReadVec(m.q, pt_dofs.dof_y, g.q) ELSE pt_info.y]

\* an accessor that reads the velocity of a free axis from q
getPointCurrentVelocityFromQ(m, pt_idx, g) ==
    LET pt_dofs == At(m.points2DOFs, pt_idx)
    IN  [x |-> IF pt_dofs.dof_x # INVALID_DOF
               THEN ReadVec(m.q, pt_dofs.dof_x, g.q) ELSE 0,
         y |-> IF pt_dofs.dof_y # INVALID_DOF
               THEN ReadVec(m.q, pt_dofs.dof_y, g.q) ELSE 0]

\* CAssembledRigidModel::getPointCurrentVelocity
getPointCurrentVelocity(m, pt_idx, g) ==
    LET pt_dofs == At(m.points2DOFs, pt_idx)
    IN  [x |-> IF pt_dofs.dof_x # INVALID_DOF
               THEN ReadVec(m.dotq, pt_dofs.dof_x, g.dotq) ELSE 0,
         y |-> IF pt_dofs.dof_y # INVALID_DOF
               THEN ReadVec(m.dotq, pt_dofs.dof_y, g.dotq) ELSE 0]

\* CAssembledRigidModel::getPointOnBodyCurrentCoords; debug is a build with
\* ASSERTDEB_ compiled in. [ok, x, y], x and y doubles
getPointOnBodyCurrentCoords(defn, m, body_index, relative_pt, debug, g) ==
    LET b == At(defn.bodies, body_index)
        q0 == getPointCurrentCoords(defn, m, At(b.points, 0), g)
        q1 == getPointCurrentCoords(defn, m, At(b.points, 1), g)
        L == b.length
        Linv == RInv(R(L))
        ux == RMul(R(q1.x - q0.x), Linv)
        uy == RMul(R(q1.y - q0.y), Linv)
        vx == RNeg(uy)
        vy == ux
    IN  IF debug /\ ~(L > 0) THEN [ok |-> FALSE]
        ELSE [ok |-> TRUE,
              x |-> RAdd(RAdd(R(q0.x), RMul(ux, R(relative_pt.x))),
                         RMul(vx, R(relative_pt.y))),
              y |-> RAdd(RAdd(R(q0.y), RMul(uy, R(relative_pt.x))),
                         RMul(vy, R(relative_pt.y)))]

-----------------------------------------------------------------------------
(* CAssembledRigidModel::evaluateEnergy *)

\* the 2x2 blocks of a body's mass matrix, those of a uniform bar: rows of
\* doubles
getM00(b) == << <<[n |-> b.mass, d |-> 3], R(0)>>,
                <<R(0), [n |-> b.mass, d |-> 3]>> >>

getM01(b) == << <<[n |-> b.mass, d |-> 6], R(0)>>,
                <<R(0), [n |-> b.mass, d |-> 6]>> >>

getM11(b) == << <<[n |-> b.mass, d |-> 3], R(0)>>,
                <<R(0), [n |-> b.mass, d |-> 3]>> >>

\* x^T * M * y for the velocities x, y of two points
QuadForm(x, M, y) ==
    RAdd(RAdd(RMul(RMul(R(x.x), M[1][1]), R(y.x)),
              RMul(RMul(R(x.x), M[1][2]), R(y.y))),
         RAdd(RMul(RMul(R(x.y), M[2][1]), R(y.x)),
              RMul(RMul(R(x.y), M[2][2]), R(y.y))))

TEnergyValues == [E_kin |-> R(0), E_pot |-> R(0), E_total |-> R(0)]

\* the loop over the bodies i.., accumulating into e; [ok, e], ok = FALSE
\* when getPointOnBodyCurrentCoords throws
RECURSIVE EnergyOfBodies(_, _, _, _, _, _)
EnergyOfBodies(defn, m, i, e, debug, g) ==
    IF i >= Len(defn.bodies) THEN [ok |-> TRUE, e |-> e]
    ELSE LET b == At(defn.bodies, i)
             dq0 == getPointCurrentVelocity(m, At(b.points, 0), g)
             dq1 == getPointCurrentVelocity(m, At(b.points, 1), g)
             kin == RAdd(RMul([n |-> 1, d |-> 2],
                              RAdd(QuadForm(dq0, getM00(b), dq0),
                                   QuadForm(dq1, getM11(b), dq1))),
                         QuadForm(dq0, getM01(b), dq1))
             global_cog == getPointOnBodyCurrentCoords(
                               defn, m, i, [x |-> b.cogx, y |-> b.cogy],
                               debug, g)
         IN  IF ~global_cog.ok THEN [ok |-> FALSE, e |-> e]
             ELSE EnergyOfBodies(
                      defn, m, i + 1,
                      [e EXCEPT
                         !.E_kin = RAdd(@, kin),
                         !.E_pot =
                            RSub(@, RMul(R(b.mass),
                                         RAdd(RAdd(RMul(m.gravity[1],
                                                        global_cog.x),
                                                   RMul(m.gravity[2],
                                                        global_cog.y)),
                                              RMul(m.gravity[3], R(0)))))],
                      debug, g)

\* [ok, e]: e reset, the loop over the bodies, then the total
evaluateEnergy(defn, m, debug, g) ==
    LET r == EnergyOfBodies(defn, m, 0, TEnergyValues, debug, g)
    IN  [ok |-> r.ok,
         e |-> [r.e EXCEPT !.E_total = RAdd(r.e.E_kin, r.e.E_pot)]]

-----------------------------------------------------------------------------
(* Changing the state of an assembled model *)

\* a row for every structure but the last one
addNewRowButLast(m) ==
    [model |-> [m EXCEPT !.rows =
                   [Phi |-> m.rows.Phi + 1, dotPhi |-> m.rows.Phi + 1,
                    Phi_q |-> m.rows.Phi + 1, dotPhi_q |-> m.rows.Phi + 1,
                    dPhiqdq_dq |-> m.rows.Phi + 1,
                    Phiqq_times_dq |-> m.rows.Phi + 1,
                    d_dotPhiq_ddq_times_dq |-> m.rows.d_dotPhiq_ddq_times_dq]],
     idx |-> m.rows.Phi]

\* CAssembledRigidModel::addNewRowToConstraints: [model, idx]
addNewRowToConstraints(m) ==
    LET idx == m.rows.Phi
        mm == idx + 1
    IN  [model |-> [m EXCEPT !.rows =
                       [Phi |-> mm, dotPhi |-> mm, Phi_q |-> mm,
                        dotPhi_q |-> mm, dPhiqdq_dq |-> mm,
                        Phiqq_times_dq |-> mm,
                        d_dotPhiq_ddq_times_dq |-> mm]],
         idx |-> idx]

\* a copy that takes q and leaves dotq behind
copyStateFromQOnly(this, o, debug) ==
    [ok |-> TRUE, model |-> [this EXCEPT !.q = o.q]]

\* CAssembledRigidModel::copyStateFrom; debug is a build with _DEBUG, whose
\* size checks throw. [ok, model (this afterwards)]
copyStateFrom(this, o, debug) ==
    IF debug /\ ~(/\ Len(this.q) = Len(o.q)
                  /\ Len(this.dotq) = Len(o.dotq)
                  /\ Len(this.DOFs) = Len(o.DOFs)
                  /\ this.rows.Phi = o.rows.Phi)
    THEN [ok |-> FALSE, model |-> this]
    ELSE [ok |-> TRUE, model |-> [this EXCEPT !.q = o.q, !.dotq = o.dotq]]

-----------------------------------------------------------------------------
(* FactorGyroscope::evaluateError *)

\* Hv(0, i) = val for each <<i, val>> of ws in turn, on the row H of n
\* columns; a store at a column i >= n lands outside the matrix
RECURSIVE StoreColumns(_, _, _)
StoreColumns(H, ws, k) ==
    IF k > Len(ws) THEN H
    ELSE LET i == ws[k][1]
         IN  StoreColumns(
                 IF i # INVALID_DOF /\ i < Len(H)
                 THEN [H EXCEPT ![i + 1] = ws[k][2]] ELSE H,
                 ws, k + 1)

\* the columns the stores of ws go to, in the order of the stores
ColumnsStored(ws) ==
    LET idx == {k \in 1..Len(ws) : ws[k][1] # INVALID_DOF}
        F[k \in 0..Len(ws)] ==
            IF k = 0 THEN <<>>
            ELSE IF k \in idx THEN Append(F[k - 1], ws[k][1]) ELSE F[k - 1]
    IN  F[Len(ws)]

\* the four stores of d err / d q_k, one per endpoint coordinate
GyroH1Stores(pts_dofs, pt0, pt1, pt0vel, pt1vel, li2) ==
    LET li4 == RMul(li2, li2)
        dx == pt0.x - pt1.x
        dy == pt0.y - pt1.y
        dvx == pt0vel.x - pt1vel.x
        dvy == pt0vel.y - pt1vel.y
    IN  << <<pts_dofs[1].dof_x,
             RSub(RMul(li2, R(dvy)),
                  RMul(RMul(R(2), li4), R(dx * (dx * dvy - dy * dvx))))>>,
           <<pts_dofs[1].dof_y,
             RAdd(RMul(RNeg(li2), R(dvx)),
                  RMul(RMul(R(2), li4), R(dy * (dy * dvx - dx * dvy))))>>,
           <<pts_dofs[2].dof_x,
             RAdd(RMul(RNeg(li2), R(dvy)),
                  RMul(RMul(R(2), li4), R(dx * (dx * dvy - dy * dvx))))>>,
           <<pts_dofs[2].dof_y,
             RAdd(RMul(li2, R(dvx)),
                  RMul(RMul(R(2), li4), R(dy * (-dy * dvx + dx * dvy))))>> >>

\* the four stores of d err / d dq_k
GyroH2Stores(pts_dofs, pt0, pt1, li2) ==
    << <<pts_dofs[1].dof_x, RMul(li2, R(pt1.y - pt0.y))>>,
       <<pts_dofs[1].dof_y, RMul(li2, R(pt0.x - pt1.x))>>,
       <<pts_dofs[2].dof_x, RMul(li2, R(pt0.y - pt1.y))>>,
       <<pts_dofs[2].dof_y, RMul(li2, R(pt1.x - pt0.x))>> >>

\* one Jacobian as returned: the row, the columns stored to (in order) and
\* whether a store fell outside the row
Jacobian(n, ws) ==
    [H |-> StoreColumns([c \in 1..n |-> R(0)], ws, 1),
     stored |-> ColumnsStored(ws),
     outside |-> \E k \in 1..Len(ws) : ws[k][1] # INVALID_DOF /\ ws[k][1] >= n]

NoJacobian == [H |-> <<>>, stored |-> <<>>, outside |-> FALSE]

\* an evaluateError that stores q_k and dq_k in the model before it checks
\* their lengths
evaluateErrorWriteFirst(defn, m, m_body_idx, m_reading, q_k, dq_k, wantH1, wantH2, g) ==
    [status |-> IF Len(dq_k) # Len(q_k) THEN "Inconsistent vector lengths!"
                ELSE IF Len(q_k) < 1 THEN "Empty state vector!"
                ELSE "ASSERT_BELOW_",
     model |-> [m EXCEPT !.q = q_k, !.dotq = dq_k],
     err |-> NaN, H1 |-> NoJacobian, H2 |-> NoJacobian]

\* evaluateError(q_k, dq_k, H1, H2) of the factor on body m_body_idx with
\* reading m_reading, bound to model m (m_arm). wantH1/wantH2: the optional
\* Jacobians are asked for. g.q, g.dotq: memory beyond the end of the vectors.
\* [status, model (m_arm afterwards), err, H1, H2]
evaluateError(defn, m, m_body_idx, m_reading, q_k, dq_k, wantH1, wantH2, g) ==
    LET n == Len(q_k)
        failed(what, mm) ==
            [status |-> what, model |-> mm, err |-> NaN,
             H1 |-> NoJacobian, H2 |-> NoJacobian]
    IN  IF Len(dq_k) # n THEN failed("Inconsistent vector lengths!", m)
        ELSE IF n < 1 THEN failed("Empty state vector!", m)
        ELSE
        LET m1 == [m EXCEPT !.q = q_k, !.dotq = dq_k]
        IN  IF ~(m_body_idx < Len(defn.bodies))
            THEN failed("ASSERT_BELOW_", m1)
            ELSE
            LET body == At(defn.bodies, m_body_idx)
                pt0_idx == At(body.points, 0)
                pt1_idx == At(body.points, 1)
                pt0 == getPointCurrentCoords(defn, m1, pt0_idx, g)
                pt1 == getPointCurrentCoords(defn, m1, pt1_idx, g)
                pt0vel == getPointCurrentVelocity(m1, pt0_idx, g)
                pt1vel == getPointCurrentVelocity(m1, pt1_idx, g)
                ux == pt1.x - pt0.x
                uy == pt1.y - pt0.y
                \* len = u.norm(); len_inv = 1.0 / len enters every result
                \* squared: len_inv * len_inv = 1 / (ux^2 + uy^2)
                li2 == RInv(R(ux * ux + uy * uy))
                rel_velx == pt1vel.x - pt0vel.x
                rel_vely == pt1vel.y - pt0vel.y
                \* rel_vel . v with v = (-u.y, u.x) * len_inv, times len_inv
                w == RMul(R(rel_velx * (-uy) + rel_vely * ux), li2)
                pts_dofs == <<At(m1.points2DOFs, pt0_idx),
                              At(m1.points2DOFs, pt1_idx)>>
            IN  [status |-> "ok",
                 model |-> m1,
                 err |-> RSub(w, R(m_reading)),
                 H1 |-> IF wantH1
                        THEN Jacobian(n, GyroH1Stores(pts_dofs, pt0, pt1,
                                                      pt0vel, pt1vel, li2))
                        ELSE NoJacobian,
                 H2 |-> IF wantH2
                        THEN Jacobian(n, GyroH2Stores(pts_dofs, pt0, pt1, li2))
                        ELSE NoJacobian]

-----------------------------------------------------------------------------
(* The mechanism the assembled models are built from *)

\* one bar: point 0 at the origin, point 1 at (1, 0), declared length 1
Mechanism ==
    [points |-> <<Point2(0, 0, TRUE), Point2(1, 0, FALSE)>>,
     bodies |-> <<Body(<<0, 1>>, 1, 1, 1, 0)>>,
     constraints |-> <<>>,
     already_added_fixed_len_constraints |-> FALSE]

\* the four endpoint coordinates, in column order
EndpointDOFs ==
    <<NaturalCoordDOF(0, "X"), NaturalCoordDOF(0, "Y"),
      NaturalCoordDOF(1, "X"), NaturalCoordDOF(1, "Y")>>

\* the sub-list of s at the positions in keep
SubList(s, keep) ==
    LET F[k \in 0..Len(s)] ==
            IF k = 0 THEN <<>>
            ELSE IF k \in keep THEN Append(F[k - 1], s[k]) ELSE F[k - 1]
    IN  F[Len(s)]

\* every choice of free endpoint coordinates (the empty one included)
DOFLists == {SubList(EndpointDOFs, keep) : keep \in SUBSET (1..4)}

\* the relative coordinates a model is assembled with: none, or the angle
\* of the bar with respect to the ground
RelativeLists == {<<>>, <<RelativeAngleAbsoluteDOF(0, 1)>>}

\* the layouts of the models exercised through the model's own interface
InterfaceDOFLists ==
    {SubList(EndpointDOFs, {3, 4}), SubList(EndpointDOFs, {2, 3})}

Models == {"a", "b"}

\* the local offsets asked of getPointOnBodyCurrentCoords
Offsets == {[x |-> lx, y |-> ly] : lx \in Values, ly \in Values}

\* the body and the reading of the gyroscope factor
m_body_idx == 0

m_reading == 0

\* the vectors of length k that are zero but for the first or the last entry
EndVectors(k) ==
    {Zeros(k)} \cup
    {[i \in 1..k |-> IF i = j THEN v ELSE 0] : j \in {1, k}, v \in 1..MaxVal}

\* the lengths of the vectors handed to evaluateError for a model m: none,
\* one short of the Euclidean DOFs, the model's DOF count, and one more
EvalLengths(m) == {0, Len(m.DOFs) - 1, m.ncols, m.ncols + 1}

\* the (q_k, dq_k) handed to evaluateError: pairs of the model's length and
\* of the short length, and zero vectors of every length, equal or not (the
\* empty pair included)
EvalInputs(m) ==
    UNION {EndVectors(k) \X EndVectors(k) :
              k \in {Len(m.DOFs) - 1, m.ncols} \ {0}} \cup
    UNION {{<<Zeros(k), Zeros(j)>> : j \in {0, m.ncols, k}} :
              k \in EvalLengths(m)}

\* gtsam's NoiseModelFactor2 asks evaluateError for both Jacobians or none
JacobianRequests == {<<FALSE, FALSE>>, <<TRUE, TRUE>>}

-----------------------------------------------------------------------------
(* Operations on assembled models *)

\* q_[i] = v, as simulators and optimizers write the state
WriteQ(name, i, v) ==
    /\ arm[name].ok
    /\ nops < MaxOps
    /\ i < Len(arm[name].q)
    /\ arm' = [arm EXCEPT ![name].q[i + 1] = v]
    /\ ret' = [op |-> "writeQ", m |-> name, i |-> i, v |-> v]
    /\ nops' = nops + 1
    /\ UNCHANGED def

\* dotq_[i] = v
WriteDotq(name, i, v) ==
    /\ arm[name].ok
    /\ nops < MaxOps
    /\ i < Len(arm[name].dotq)
    /\ arm' = [arm EXCEPT ![name].dotq[i + 1] = v]
    /\ ret' = [op |-> "writeDotq", m |-> name, i |-> i, v |-> v]
    /\ nops' = nops + 1
    /\ UNCHANGED def

AddNewRowToConstraints(name) ==
    /\ arm[name].ok
    /\ nops < MaxOps
    /\ LET r == addNewRowToConstraints(arm[name])
       IN  /\ arm' = [arm EXCEPT ![name] = r.model]
           /\ ret' = [op |-> "addNewRowToConstraints", m |-> name,
                      idx |-> r.idx]
    /\ nops' = nops + 1
    /\ UNCHANGED def

\* this.copyStateFrom(o)
CopyStateFrom(this, o, debug) ==
    /\ this # o
    /\ arm[this].ok /\ arm[o].ok
    /\ nops < MaxOps
    /\ LET r == copyStateFrom(arm[this], arm[o], debug)
       IN  /\ arm' = [arm EXCEPT ![this] = r.model]
           /\ ret' = [op |-> "copyStateFrom", m |-> this, o |-> o,
                      ok |-> r.ok]
    /\ nops' = nops + 1
    /\ UNCHANGED def

GetPointCurrentCoords(name, pt_idx) ==
    /\ arm[name].ok
    /\ nops < MaxOps
    /\ \E g \in Garbage(arm[name]) :
          ret' = [op |-> "getPointCurrentCoords", m |-> name,
                  pt_idx |-> pt_idx,
                  val |-> getPointCurrentCoords(def, arm[name], pt_idx, g)]
    /\ nops' = nops + 1
    /\ UNCHANGED <<def, arm>>

GetPointCurrentVelocity(name, pt_idx) ==
    /\ arm[name].ok
    /\ nops < MaxOps
    /\ \E g \in Garbage(arm[name]) :
          ret' = [op |-> "getPointCurrentVelocity", m |-> name,
                  pt_idx |-> pt_idx,
                  val |-> getPointCurrentVelocity(arm[name], pt_idx, g)]
    /\ nops' = nops + 1
    /\ UNCHANGED <<def, arm>>

GetPointOnBodyCurrentCoords(name, body_index, relative_pt, debug) ==
    /\ arm[name].ok
    /\ nops < MaxOps
    /\ \E g \in Garbage(arm[name]) :
          ret' = [op |-> "getPointOnBodyCurrentCoords", m |-> name,
                  body_index |-> body_index, relative_pt |-> relative_pt,
                  val |-> getPointOnBodyCurrentCoords(
                              def, arm[name], body_index, relative_pt,
                              debug, g)]
    /\ nops' = nops + 1
    /\ UNCHANGED <<def, arm>>

EvaluateEnergy(name, debug) ==
    /\ arm[name].ok
    /\ nops < MaxOps
    /\ \E g \in Garbage(arm[name]) :
       \E r \in {evaluateEnergy(def, arm[name], debug, g)} :
          ret' = [op |-> "evaluateEnergy", m |-> name, ok |-> r.ok,
                  val |-> r.e]
    /\ nops' = nops + 1
    /\ UNCHANGED <<def, arm>>

\* the factor bound to model "a" evaluates its error. A read or a store
\* beyond the end of a vector is undefined: the build either stops there
\* (Eigen's index assertion) or goes on with what the memory holds
EvaluateError(q_k, dq_k, wantH1, wantH2) ==
    /\ arm["a"].ok
    /\ ret.op = "evaluateError" => ret.status # "aborted"
    /\ LET m1 == [arm["a"] EXCEPT !.q = q_k, !.dotq = dq_k]
       IN  \E g \in Garbage(m1) :
           \E r \in {evaluateError(def, arm["a"], m_body_idx, m_reading,
                                  q_k, dq_k, wantH1, wantH2, g)} :
           LET undefined ==
                   /\ r.status = "ok"
                   /\ \/ DOMAIN g.q # {} \/ DOMAIN g.dotq # {}
                      \/ r.H1.outside \/ r.H2.outside
           IN  /\ arm' = [arm EXCEPT !["a"] = r.model]
               /\ \/ ret' = [op |-> "evaluateError", m |-> "a",
                             n |-> Len(q_k), ndq |-> Len(dq_k),
                             wantH1 |-> wantH1, wantH2 |-> wantH2,
                             status |-> r.status,
                             err |-> r.err, H1 |-> r.H1, H2 |-> r.H2]
                  \/ /\ undefined
                     /\ ret' = [op |-> "evaluateError", m |-> "a",
                                n |-> Len(q_k), ndq |-> Len(dq_k),
                                wantH1 |-> wantH1, wantH2 |-> wantH2,
                                status |-> "aborted",
                                err |-> NaN, H1 |-> NoJacobian,
                                H2 |-> NoJacobian]
    /\ UNCHANGED <<def, nops>>

-----------------------------------------------------------------------------
(* The assembled models used through their own interface: two models of    *)
(* the mechanism, with the same or with different DOF layouts              *)

Assembled == AssembleSymbolic(Mechanism).def

Init ==
    /\ def = Assembled
    /\ \E da \in InterfaceDOFLists, ra \in RelativeLists :
       \E other \in {<<da, ra>>, <<da, <<>> >>, <<EndpointDOFs, <<>> >>} :
          arm = [name \in Models |->
                    IF name = "a" THEN Construct(Assembled, da, ra)
                    ELSE Construct(Assembled, other[1], other[2])]
    /\ ret = NoRet
    /\ nops = 0

Reads ==
    \E name \in Models :
        \/ \E p \in 0..(Len(def.points) - 1) : GetPointCurrentCoords(name, p)
        \/ \E p \in 0..(Len(def.points) - 1) : GetPointCurrentVelocity(name, p)
        \/ \E off \in Offsets, debug \in BOOLEAN :
              GetPointOnBodyCurrentCoords(name, 0, off, debug)
        \/ \E debug \in BOOLEAN : EvaluateEnergy(name, debug)

Next ==
    \/ \E name \in Models, i \in 0..5, v \in Values : WriteQ(name, i, v)
    \/ \E name \in Models, i \in 0..5, v \in Values : WriteDotq(name, i, v)
    \/ \E this \in Models, o \in Models, debug \in BOOLEAN :
          CopyStateFrom(this, o, debug)
    \/ \E name \in Models : AddNewRowToConstraints(name)
    \/ Reads

Spec == Init /\ [][Next]_vars

-----------------------------------------------------------------------------
(* The gyroscope factor on one assembled model, for every choice of free   *)
(* endpoint coordinates                                                    *)

InitGyro ==
    /\ def = Assembled
    /\ \E da \in DOFLists \ {<<>>} :
          arm = [name \in Models |->
                    IF name = "a"
                    THEN Construct(Assembled, da,
                                   <<RelativeAngleAbsoluteDOF(0, 1)>>)
                    ELSE NoModel]
    /\ ret = NoRet
    /\ nops = 0

NextGyro ==
    \E input \in EvalInputs(arm["a"]), want \in JacobianRequests :
       EvaluateError(input[1], input[2], want[1], want[2])

SpecGyro == InitGyro /\ [][NextGyro]_vars

-----------------------------------------------------------------------------
(* Authoring and assembling a definition                                   *)

\* where point i is put: the corners of a grid, row by row
Coords(i) == [x |-> i % 2, y |-> i \div 2]

\* n points, the first k of them fixed
Layout(n, k) ==
    [i \in 1..n |-> Point2(Coords(i - 1).x, Coords(i - 1).y, i <= k)]

\* the point lists given to bodies: the first n points, n = 0..MaxPoints
BodyPointLists == {[i \in 1..n |-> i - 1] : n \in 0..MaxPoints}

\* the relative coordinates asked for at assembly
AsmRelativeLists ==
    {<<>>, <<RelativeAngleAbsoluteDOF(0, 1)>>,
     <<RelativeAngleDOF(0, 1, 2), RelativeAngleAbsoluteDOF(0, 1)>>}

SetPointCoords(i, coords, is_fixed) ==
    /\ nops < MaxSteps
    /\ LET r == setPointCoords(def, i, coords, is_fixed)
       IN  /\ def' = r.def
           /\ ret' = [op |-> "setPointCoords", ok |-> r.ok]
    /\ nops' = nops + 1
    /\ UNCHANGED arm

AddBody(points, length) ==
    /\ nops < MaxSteps
    /\ LET r == addBody(def, Body(points, length, 1, 0, 0))
       IN  /\ def' = r.def
           /\ ret' = [op |-> "addBody", ok |-> r.ok]
    /\ nops' = nops + 1
    /\ UNCHANGED arm

Clear ==
    /\ nops < MaxSteps
    /\ def' = clear(def)
    /\ ret' = [op |-> "clear", ok |-> TRUE]
    /\ nops' = nops + 1
    /\ UNCHANGED arm

\* def.assembleRigidMBS(armi): the symbolic assembly alone
AssembleArmi ==
    /\ nops < MaxSteps
    /\ LET r == AssembleSymbolic(def)
       IN  /\ def' = r.def
           /\ ret' = [op |-> "assembleRigidMBS(armi)", ok |-> r.ok,
                      DOFs |-> IF r.ok THEN r.DOFs ELSE <<>>]
    /\ nops' = nops + 1
    /\ UNCHANGED arm

\* "a" = def.assembleRigidMBS(relativeCoordinates); no model if it throws
Assemble(relativeCoordinates) ==
    /\ nops < MaxSteps
    /\ LET r == AssembleRigidMBS(def, relativeCoordinates)
       IN  /\ def' = r.def
           /\ arm' = [arm EXCEPT !["a"] = r.model]
           /\ ret' = [op |-> "assembleRigidMBS", ok |-> r.ok,
                      rDOFs |-> relativeCoordinates]
    /\ nops' = nops + 1

\* "a" = CAssembledRigidModel(armi) on an armi the caller filled in: the
\* DOFs of the free points, or none
NewAssembledModel(allDOFs, rDOFs) ==
    /\ nops < MaxSteps
    /\ LET DOFs == IF allDOFs THEN FreePointDOFs(def.points, 0) ELSE <<>>
           m == Construct(def, DOFs, rDOFs)
       IN  /\ arm' = [arm EXCEPT !["a"] = m]
           /\ ret' = [op |-> "CAssembledRigidModel", ok |-> m.ok,
                      DOFs |-> DOFs, rDOFs |-> rDOFs]
    /\ nops' = nops + 1
    /\ UNCHANGED def

\* a definition as authored: up to MaxPoints points, the first ones fixed,
\* and no body or one two-point bar
InitAsm ==
    /\ \E n \in 0..MaxPoints, k \in 0..MaxPoints, bar \in BOOLEAN :
          /\ k <= n
          /\ def = [EmptyDefinition EXCEPT
                       !.points = Layout(n, k),
                       !.bodies = IF bar THEN <<Body(<<0, 1>>, 1, 1, 0, 0)>>
                                  ELSE <<>>]
    /\ arm = [name \in Models |-> NoModel]
    /\ ret = NoRet
    /\ nops = 0

NextAsm ==
    \/ \E i \in 0..(MaxPoints - 1), at \in {0, 1}, is_fixed \in BOOLEAN :
          SetPointCoords(i, Coords(i + at), is_fixed)
    \/ \E points \in BodyPointLists : AddBody(points, 1)
    \/ Clear
    \/ AssembleArmi
    \/ \E rel \in AsmRelativeLists : Assemble(rel)
    \/ \E allDOFs \in BOOLEAN, rel \in RelativeLists :
          NewAssembledModel(allDOFs, rel)

SpecAsm == InitAsm /\ [][NextAsm]_vars

-----------------------------------------------------------------------------
(* Properties                                                              *)

\* every point of the definition is fixed (or there is no point)
NoFreePoint(defn) == \A i \in 1..Len(defn.points) : defn.points[i].fixed

\* memory beyond the vectors, for reads that stay within them
NoGarbage == [q |-> <<>>, dotq |-> <<>>]

\* every mapped column of m lies within q and dotq
ReadsInBounds(m) == BeyondEnd(m, m.q) = {} /\ BeyondEnd(m, m.dotq) = {}

LengthErrors == {"Inconsistent vector lengths!", "Empty state vector!"}

Range(s) == {s[i] : i \in 1..Len(s)}

\* C2: assembling with an empty Euclidean DOF list fails, whatever the
\* relative DOFs: assembleRigidMBS on a definition without a free point and
\* the constructor on an armi without DOFs return no model, and no model
\* ever has a state vector of zero size or of relative DOFs only.
C2_NoModelWithoutEuclideanDOFs ==
    /\ (ret.op = "assembleRigidMBS" /\ NoFreePoint(def))
           => (~ret.ok /\ ~arm["a"].ok)
    /\ (ret.op = "CAssembledRigidModel" /\ ret.DOFs = <<>>)
           => (~ret.ok /\ ~arm["a"].ok)
    /\ arm["a"].ok =>
           /\ Len(arm["a"].DOFs) > 0
           /\ Len(arm["a"].q) > 0
           /\ Len(arm["a"].q) > Len(arm["a"].rDOFs)

\* C2 happens: every point of a non-empty definition is fixed, the closure
\* constraints went in, relative DOFs were supplied, and the assembly failed
C2_Witness ==
    /\ ret.op = "assembleRigidMBS"
    /\ Len(def.points) > 0 /\ NoFreePoint(def)
    /\ def.already_added_fixed_len_constraints
    /\ ret.rDOFs # <<>>
    /\ ~ret.ok

\* C3: for every point and each axis, getPointCurrentCoords returns q[dof]
\* when the axis has a DOF column and the static coordinate otherwise,
\* getPointCurrentVelocity returns dotq[dof] or 0; a value written into q
\* (or dotq) at a free axis's column is read back unchanged by the next
\* accessor call; and the accessors change no state.
C3_AccessorsReflectState ==
    [][/\ ret'.op \in {"getPointCurrentCoords", "getPointCurrentVelocity"}
           => (arm' = arm /\ def' = def)
       /\ ret'.op = "getPointCurrentCoords" =>
              LET m == arm[ret'.m]
                  dofs == m.points2DOFs[ret'.pt_idx + 1]
                  pt == def.points[ret'.pt_idx + 1]
              IN  /\ dofs.dof_x = INVALID_DOF => ret'.val.x = pt.x
                  /\ dofs.dof_y = INVALID_DOF => ret'.val.y = pt.y
                  /\ (dofs.dof_x # INVALID_DOF /\ dofs.dof_x < Len(m.q))
                         => ret'.val.x = m.q[dofs.dof_x + 1]
                  /\ (dofs.dof_y # INVALID_DOF /\ dofs.dof_y < Len(m.q))
                         => ret'.val.y = m.q[dofs.dof_y + 1]
                  /\ (ret.op = "writeQ" /\ ret.m = ret'.m) =>
                         /\ dofs.dof_x = ret.i => ret'.val.x = ret.v
                         /\ dofs.dof_y = ret.i => ret'.val.y = ret.v
       /\ ret'.op = "getPointCurrentVelocity" =>
              LET m == arm[ret'.m]
                  dofs == m.points2DOFs[ret'.pt_idx + 1]
              IN  /\ dofs.dof_x = INVALID_DOF => ret'.val.x = 0
                  /\ dofs.dof_y = INVALID_DOF => ret'.val.y = 0
                  /\ (dofs.dof_x # INVALID_DOF /\ dofs.dof_x < Len(m.dotq))
                         => ret'.val.x = m.dotq[dofs.dof_x + 1]
                  /\ (dofs.dof_y # INVALID_DOF /\ dofs.dof_y < Len(m.dotq))
                         => ret'.val.y = m.dotq[dofs.dof_y + 1]
                  /\ (ret.op = "writeDotq" /\ ret.m = ret'.m) =>
                         /\ dofs.dof_x = ret.i => ret'.val.x = ret.v
                         /\ dofs.dof_y = ret.i => ret'.val.y = ret.v
      ]_vars

\* C3 happens: a velocity written at a free axis's column, different from
\* the position in that column, has been read back
C3_Witness ==
    /\ ret.op = "getPointCurrentVelocity"
    /\ LET m == arm[ret.m]
           dofs == m.points2DOFs[ret.pt_idx + 1]
       IN  /\ dofs.dof_x # INVALID_DOF
           /\ dofs.dof_x < Len(m.dotq) /\ dofs.dof_x < Len(m.q)
           /\ ret.val.x = MaxVal
           /\ m.q[dofs.dof_x + 1] # MaxVal

\* C4: a.copyStateFrom(b) between models with the same DOFs of the same
\* definition changes only a's q and dotq (b, the definition and a's DOF
\* tables, ddotq, Q and constraints stay), and when it returns the two
\* accessors give the same results on a and on b for every point.
C4_CopyStateFromAgrees ==
    [][(ret'.op = "copyStateFrom"
        /\ arm[ret'.m].DOFs = arm[ret'.o].DOFs) =>
          /\ def' = def
          /\ arm'[ret'.o] = arm[ret'.o]
          /\ [arm'[ret'.m] EXCEPT !.q = arm[ret'.m].q,
                                  !.dotq = arm[ret'.m].dotq] = arm[ret'.m]
          /\ ret'.ok =>
                \A p \in 0..(Len(def.points) - 1) :
                   /\ getPointCurrentCoords(def, arm'[ret'.m], p, NoGarbage)
                      = getPointCurrentCoords(def, arm'[ret'.o], p, NoGarbage)
                   /\ getPointCurrentVelocity(arm'[ret'.m], p, NoGarbage)
                      = getPointCurrentVelocity(arm'[ret'.o], p, NoGarbage)
      ]_vars

\* C4 happens: a copy between two models with the same DOFs succeeded and
\* brought over a velocity that is not the initial one
C4_Witness ==
    /\ ret.op = "copyStateFrom" /\ ret.ok
    /\ arm[ret.m].DOFs = arm[ret.o].DOFs
    /\ arm[ret.m].dotq = arm[ret.o].dotq
    /\ \E i \in 1..Len(arm[ret.m].DOFs) : arm[ret.m].dotq[i] # 0

\* C5: evaluateError fails when dq's length differs from q's or when the
\* length is zero, and then the model's q and dotq are what they were
\* before the call.
C5_LengthChecksPrecedeWrites ==
    [][(ret'.op = "evaluateError"
        /\ (ret'.ndq # ret'.n \/ ret'.n = 0)) =>
          /\ ret'.status \in LengthErrors
          /\ arm'["a"].q = arm["a"].q
          /\ arm'["a"].dotq = arm["a"].dotq
      ]_vars

\* C5 happens: vectors of unequal lengths, q_k not of the length of the
\* model's q, were rejected
C5_Witness ==
    /\ ret.op = "evaluateError"
    /\ ret.status = "Inconsistent vector lengths!"
    /\ ret.n # Len(arm["a"].q)

\* C6: the Jacobians evaluateError returns are 1-by-n rows, the stores go
\* to the DOF columns of the free endpoint coordinates of the body, one
\* store per free coordinate and each within the row, and every other
\* column is zero.
C6_JacobianColumns ==
    (ret.op = "evaluateError" /\ ret.status = "ok" /\ ret.wantH1
     /\ ret.wantH2) =>
        LET m == arm["a"]
            body == At(def.bodies, m_body_idx)
            d0 == At(m.points2DOFs, At(body.points, 0))
            d1 == At(m.points2DOFs, At(body.points, 1))
            free == {d0.dof_x, d0.dof_y, d1.dof_x, d1.dof_y} \ {INVALID_DOF}
        IN  \A J \in {ret.H1, ret.H2} :
               /\ Len(J.H) = ret.n
               /\ ~J.outside
               /\ Range(J.stored) = free
               /\ Len(J.stored) = Cardinality(free)
               /\ \A c \in 0..(ret.n - 1) : c \notin free => At(J.H, c) = R(0)

\* C7: copyStateFrom(o) with an o whose q, dotq or DOF table differs in
\* size from this model's fails and leaves this model's q and dotq as they
\* were.
C7_CopyStateFromSizeMismatchFails ==
    [][(ret'.op = "copyStateFrom"
        /\ \/ Len(arm[ret'.m].q) # Len(arm[ret'.o].q)
           \/ Len(arm[ret'.m].dotq) # Len(arm[ret'.o].dotq)
           \/ Len(arm[ret'.m].DOFs) # Len(arm[ret'.o].DOFs)) =>
          /\ ~ret'.ok
          /\ arm'[ret'.m].q = arm[ret'.m].q
          /\ arm'[ret'.m].dotq = arm[ret'.m].dotq
      ]_vars

\* C8: when the current positions of the body's two reference points
\* coincide, getPointOnBodyCurrentCoords and evaluateError report a failure
\* and return no result.
C8_ZeroLengthSegmentReported ==
    /\ (ret.op = "getPointOnBodyCurrentCoords"
        /\ ReadsInBounds(arm[ret.m])) =>
          LET b == At(def.bodies, ret.body_index)
          IN  getPointCurrentCoords(def, arm[ret.m], At(b.points, 0), NoGarbage)
              = getPointCurrentCoords(def, arm[ret.m], At(b.points, 1),
                                      NoGarbage)
              => ~ret.val.ok
    /\ (ret.op = "evaluateError" /\ ret.status \notin LengthErrors
        /\ ReadsInBounds(arm["a"])) =>
          LET b == At(def.bodies, m_body_idx)
          IN  getPointCurrentCoords(def, arm["a"], At(b.points, 0), NoGarbage)
              = getPointCurrentCoords(def, arm["a"], At(b.points, 1),
                                      NoGarbage)
              => ret.status # "ok"

\* C9: assembleRigidMBS on a definition with a body of 0 or 1 points fails
\* and leaves the definition as it was before the call.
C9_FailedAssemblyLeavesDefinition ==
    [][(ret'.op \in {"assembleRigidMBS(armi)", "assembleRigidMBS"}
        /\ \E i \in 1..Len(def.bodies) : Len(def.bodies[i].points) < 2) =>
          /\ ~ret'.ok
          /\ def' = def
      ]_vars

\* C10: with p0 # p1 the current positions of the body's first two points,
\* getPointOnBodyCurrentCoords(body, (lx, ly)) is p0 + lx*u + ly*v for
\* u = (p1 - p0) / |p1 - p0| and v = (-u.y, u.x). With d = p1 - p0 and
\* t = (lx*d.x - ly*d.y, lx*d.y + ly*d.x) this is: result - p0 = t / |d|,
\* stated per component by its sign and its square.
C10_PointOnBodyUsesUnitDirector ==
    (ret.op = "getPointOnBodyCurrentCoords" /\ ret.val.ok
     /\ ReadsInBounds(arm[ret.m])) =>
        LET b == At(def.bodies, ret.body_index)
            p0 == getPointCurrentCoords(def, arm[ret.m], At(b.points, 0),
                                        NoGarbage)
            p1 == getPointCurrentCoords(def, arm[ret.m], At(b.points, 1),
                                        NoGarbage)
            dx == p1.x - p0.x
            dy == p1.y - p0.y
            dd == dx * dx + dy * dy
            lx == ret.relative_pt.x
            ly == ret.relative_pt.y
            tx == lx * dx - ly * dy
            ty == lx * dy + ly * dx
            rx == RSub(ret.val.x, R(p0.x))
            ry == RSub(ret.val.y, R(p0.y))
        IN  dd > 0 =>
               /\ IsFinite(rx) /\ IsFinite(ry)
               /\ Sgn(rx.n) = Sgn(tx) /\ Sgn(ry.n) = Sgn(ty)
               /\ rx.n * rx.n * dd = tx * tx * rx.d * rx.d
               /\ ry.n * ry.n * dd = ty * ty * ry.d * ry.d

\* C11: evaluateEnergy on a model whose velocities are all zero succeeds
\* with kinetic energy exactly 0, total = kinetic + potential, and potential
\* energy -mass * (gravity . cog) for the body's current global centre of
\* gravity cog = p0 + (cog.x*d - cog.y*rot(d)) / |d|, d = p1 - p0 # 0. With
\* t = (cog.x*d.x - cog.y*d.y, cog.x*d.y + cog.y*d.x) this is:
\* (E_pot + mass * gravity.p0) * |d| = -mass * gravity.t, stated by the sign
\* and the square of both sides.
C11_EnergyAtRest ==
    (ret.op = "evaluateEnergy" /\ ReadsInBounds(arm[ret.m])
     /\ Len(def.bodies) = 1
     /\ \A i \in 1..Len(arm[ret.m].dotq) : arm[ret.m].dotq[i] = 0) =>
        LET m == arm[ret.m]
            b == At(def.bodies, 0)
            p0 == getPointCurrentCoords(def, m, At(b.points, 0), NoGarbage)
            p1 == getPointCurrentCoords(def, m, At(b.points, 1), NoGarbage)
            dx == p1.x - p0.x
            dy == p1.y - p0.y
            dd == dx * dx + dy * dy
            tx == b.cogx * dx - b.cogy * dy
            ty == b.cogx * dy + b.cogy * dx
            lhs == RAdd(ret.val.E_pot,
                        RMul(R(b.mass),
                             RAdd(RMul(m.gravity[1], R(p0.x)),
                                  RMul(m.gravity[2], R(p0.y)))))
            rhs == RNeg(RMul(R(b.mass),
                             RAdd(RMul(m.gravity[1], R(tx)),
                                  RMul(m.gravity[2], R(ty)))))
        IN  dd > 0 =>
               /\ ret.ok
               /\ ret.val.E_kin = R(0)
               /\ ret.val.E_total = RAdd(ret.val.E_kin, ret.val.E_pot)
               /\ IsFinite(lhs)
               /\ Sgn(lhs.n) = Sgn(rhs.n)
               /\ RMul(RMul(lhs, lhs), R(dd)) = RMul(rhs, rhs)

\* the number of free points before point p
FreeBefore(points, p) ==
    Cardinality({i \in 0..(p - 1) : ~At(points, i).fixed})

\* C12: in an assembled model the i-th Euclidean DOF (p, a) is column i and
\* map[p].a = i, the j-th relative DOF is column nEuclidean + j, the columns
\* are exactly 0..nDOFs-1 with none shared, and an axis that is not in the
\* Euclidean DOF list is invalid; right after assembleRigidMBS the k-th free
\* point has x at 2k and y at 2k+1 and a fixed point has both axes invalid.
C12_DOFColumnsContiguous ==
    LET m == arm["a"]
    IN  m.ok =>
        LET nE == Len(m.DOFs)
            nR == Len(m.rDOFs)
        IN  /\ \A i \in 0..(nE - 1) :
                  LET d == At(m.DOFs, i)
                      e == At(m.points2DOFs, d.point_index)
                  IN  (IF d.point_dof = "X" THEN e.dof_x ELSE e.dof_y) = i
            /\ \A j \in 0..(nR - 1) :
                  /\ At(m.relCoordinate2Index, j) = nE + j
                  /\ At(m.constraints, Len(m.constraints) - nR + j).dof
                        = nE + j
            /\ Len(m.relCoordinate2Index) = nR
            /\ MappedColumns(m) = 0..(nE - 1)
            /\ Range(m.relCoordinate2Index) = nE..(nE + nR - 1)
            /\ m.ncols = nE + nR
            /\ Cardinality({pa \in (1..Len(m.points2DOFs)) \X {"X", "Y"} :
                               (IF pa[2] = "X"
                                THEN m.points2DOFs[pa[1]].dof_x
                                ELSE m.points2DOFs[pa[1]].dof_y)
                                   # INVALID_DOF}) = nE
            /\ \A p \in 0..(Len(m.points2DOFs) - 1) :
                  /\ NaturalCoordDOF(p, "X") \notin Range(m.DOFs)
                        => At(m.points2DOFs, p).dof_x = INVALID_DOF
                  /\ NaturalCoordDOF(p, "Y") \notin Range(m.DOFs)
                        => At(m.points2DOFs, p).dof_y = INVALID_DOF
            /\ ret.op = "assembleRigidMBS" =>
                  /\ Len(m.points2DOFs) = Len(def.points)
                  /\ \A p \in 0..(Len(def.points) - 1) :
                        At(m.points2DOFs, p) =
                           IF At(def.points, p).fixed
                           THEN [dof_x |-> INVALID_DOF, dof_y |-> INVALID_DOF]
                           ELSE [dof_x |-> 2 * FreeBefore(def.points, p),
                                 dof_y |-> 2 * FreeBefore(def.points, p) + 1]

\* C12 happens: assembleRigidMBS built a model with a relative DOF over a
\* definition with a fixed point that follows a free one and two free points
C12_Witness ==
    /\ ret.op = "assembleRigidMBS" /\ ret.ok /\ arm["a"].ok
    /\ Len(arm["a"].rDOFs) >= 1
    /\ Len(arm["a"].DOFs) >= 4
    /\ \E p \in 1..(Len(def.points) - 1) :
          At(def.points, p).fixed /\ ~At(def.points, p - 1).fixed

\* C13: right after a successful assembly q, dotq, ddotq and Q have length
\* |Euclidean DOFs| + |relative DOFs|, q holds the static coordinate of its
\* point at every Euclidean DOF and zero at every relative DOF, dotq, ddotq
\* and Q are zero, and so getPointCurrentCoords returns each point's static
\* coordinates and getPointCurrentVelocity returns (0, 0).
C13_FreshModelState ==
    (ret.op \in {"assembleRigidMBS", "CAssembledRigidModel"} /\ ret.ok) =>
        LET m == arm["a"]
            nE == Len(m.DOFs)
            nDOFs == nE + Len(m.rDOFs)
        IN  /\ m.ok
            /\ Len(m.q) = nDOFs /\ Len(m.dotq) = nDOFs
            /\ Len(m.ddotq) = nDOFs /\ Len(m.Q) = nDOFs
            /\ \A i \in 0..(nE - 1) :
                  LET d == At(m.DOFs, i)
                      pt == At(def.points, d.point_index)
                  IN  At(m.q, i) = IF d.point_dof = "X" THEN pt.x ELSE pt.y
            /\ \A i \in nE..(nDOFs - 1) : At(m.q, i) = 0
            /\ m.dotq = Zeros(nDOFs)
            /\ m.ddotq = Zeros(nDOFs)
            /\ m.Q = Zeros(nDOFs)
            /\ ReadsInBounds(m)
            /\ \A p \in 0..(Len(def.points) - 1) :
                  /\ getPointCurrentCoords(def, m, p, NoGarbage)
                        = [x |-> At(def.points, p).x,
                           y |-> At(def.points, p).y]
                  /\ getPointCurrentVelocity(m, p, NoGarbage)
                        = [x |-> 0, y |-> 0]

\* C13 happens: an assembly with a relative DOF succeeded over a definition
\* with a fixed point and a free point away from the origin
C13_Witness ==
    /\ ret.op = "assembleRigidMBS" /\ ret.ok
    /\ Len(arm["a"].rDOFs) >= 1
    /\ \E p \in 0..(Len(def.points) - 1) : At(def.points, p).fixed
    /\ \E p \in 0..(Len(def.points) - 1) :
          /\ ~At(def.points, p).fixed
          /\ At(def.points, p).x # 0 /\ At(def.points, p).y # 0

\* C14: right after a successful assembly the model's constraints are the
\* parent definition's constraints in the parent's order followed by one
\* constraint per relative DOF in relative-DOF order, three-point for a
\* relative angle and two-point for an absolute one, each bound to column
\* nEuclidean + j; and the sparse-structure builder has run exactly once on
\* every constraint of the complete list.
C14_ConstraintList ==
    (ret.op \in {"assembleRigidMBS", "CAssembledRigidModel"} /\ ret.ok) =>
        LET m == arm["a"]
            nE == Len(m.DOFs)
            nR == Len(m.rDOFs)
            nConst == Len(def.constraints)
        IN  /\ Len(m.constraints) = nConst + nR
            /\ SubSeq(m.constraints, 1, nConst) = def.constraints
            /\ \A j \in 0..(nR - 1) :
                  LET rd == At(m.rDOFs, j)
                      co == At(m.constraints, nConst + j)
                  IN  /\ co.dof = nE + j
                      /\ rd.type = "RelativeAngleDOF" =>
                            /\ co.kind = "RelativeAngle"
                            /\ co.pts = <<rd.point_idx0, rd.point_idx1,
                                          rd.point_idx2>>
                      /\ rd.type = "RelativeAngleAbsoluteDOF" =>
                            /\ co.kind = "RelativeAngleAbsolute"
                            /\ co.pts = <<rd.point_idx0, rd.point_idx1>>
            /\ m.built = [k \in 1..(nConst + nR) |-> 1]

\* C14 happens: a definition with closure constraints was assembled with a
\* relative angle and an absolute relative angle
C14_Witness ==
    /\ ret.op = "assembleRigidMBS" /\ ret.ok
    /\ Len(def.constraints) >= 1
    /\ \E j \in 1..Len(arm["a"].rDOFs) :
          arm["a"].rDOFs[j].type = "RelativeAngleDOF"
    /\ \E j \in 1..Len(arm["a"].rDOFs) :
          arm["a"].rDOFs[j].type = "RelativeAngleAbsoluteDOF"

\* the k-th (from 1) local pair of a body: (0,1), then (0,j), (1,j) for
\* j = 2, 3, ...
ClosurePair(k) ==
    IF k = 1 THEN <<0, 1>> ELSE <<k % 2, 2 + ((k - 2) \div 2)>>

\* the number of closure constraints of the bodies before body i
RECURSIVE ClosuresBefore(_, _)
ClosuresBefore(bodies, i) ==
    IF i = 0 THEN 0
    ELSE ClosuresBefore(bodies, i - 1) + 2 * Len(At(bodies, i - 1).points) - 3

\* C15: a call of assembleRigidMBS that generates the closure constraints
\* appends, for each body of n >= 2 points in body order, exactly 2n-3
\* constant-distance constraints on the local pairs (0,1), (0,2), (1,2),
\* (0,3), (1,3), ..., each on valid point indices, no pair twice, with the
\* declared length for n = 2 and the distance of the two points' static
\* coordinates for n >= 3.
C15_ClosureConstraints ==
    [][(def'.already_added_fixed_len_constraints
        /\ ~def.already_added_fixed_len_constraints) =>
          LET base == Len(def.constraints)
              nB == Len(def.bodies)
          IN  /\ \A i \in 0..(nB - 1) : Len(At(def.bodies, i).points) >= 2
              /\ Len(def'.constraints) = base + ClosuresBefore(def.bodies, nB)
              /\ SubSeq(def'.constraints, 1, base) = def.constraints
              /\ \A i \in 0..(nB - 1) :
                    LET b == At(def.bodies, i)
                        n == Len(b.points)
                        first == base + ClosuresBefore(def.bodies, i)
                    IN  /\ \A k \in 1..(2 * n - 3) :
                              LET pr == ClosurePair(k)
                                  p == At(b.points, pr[1])
                                  q == At(b.points, pr[2])
                                  co == def'.constraints[first + k]
                              IN  /\ pr[1] < pr[2] /\ pr[2] < n
                                  /\ p < Len(def.points)
                                  /\ q < Len(def.points)
                                  /\ co.kind = "ConstantDistance"
                                  /\ co.pts = <<p, q>>
                                  /\ co.lenSq =
                                        IF n = 2 THEN b.length * b.length
                                        ELSE (At(def.points, p).x
                                                - At(def.points, q).x)
                                             * (At(def.points, p).x
                                                - At(def.points, q).x)
                                             + (At(def.points, p).y
                                                - At(def.points, q).y)
                                             * (At(def.points, p).y
                                                - At(def.points, q).y)
                        /\ \A k1, k2 \in 1..(2 * n - 3) :
                              k1 # k2 => ClosurePair(k1) # ClosurePair(k2)
      ]_vars

\* C15 happens: the closure constraints are in for a two-point body and a
\* four-point body, six constraints in all
C15_Witness ==
    /\ ret.op = "assembleRigidMBS(armi)" /\ ret.ok
    /\ def.already_added_fixed_len_constraints
    /\ \E i \in 1..Len(def.bodies) : Len(def.bodies[i].points) = 2
    /\ \E i \in 1..Len(def.bodies) : Len(def.bodies[i].points) = 4
    /\ Len(def.constraints) = 6

\* the structures that hold one row per constraint
RowStructures ==
    {"Phi", "dotPhi", "Phi_q", "dotPhi_q", "dPhiqdq_dq", "Phiqq_times_dq",
     "d_dotPhiq_ddq_times_dq"}

\* C16: addNewRowToConstraints adds exactly one row to each of Phi, dotPhi,
\* Phi_q, dotPhi_q, dPhiqdq_dq, Phiqq_times_dq and d_dotPhiq_ddq_times_dq,
\* returns the row count from before the call, keeps the row counts equal
\* to each other, and leaves the column count, the state vectors and
\* everything else as they were.
C16_AddNewRow ==
    [][ret'.op = "addNewRowToConstraints" =>
          LET old == arm[ret'.m]
              new == arm'[ret'.m]
          IN  /\ DOMAIN new.rows = RowStructures
              /\ \A f \in RowStructures : new.rows[f] = old.rows[f] + 1
              /\ ret'.idx = old.rows.Phi
              /\ (\A f \in RowStructures : old.rows[f] = old.rows.Phi)
                    => (\A f \in RowStructures : new.rows[f] = ret'.idx + 1)
              /\ new.ncols = old.ncols
              /\ new.q = old.q /\ new.dotq = old.dotq
              /\ new.ddotq = old.ddotq /\ new.Q = old.Q
              /\ new = [old EXCEPT !.rows = new.rows]
              /\ \A o \in Models \ {ret'.m} : arm'[o] = arm[o]
              /\ def' = def
      ]_vars

\* C16 happens: a second row was appended to a model after its assembly
C16_Witness ==
    /\ ret.op = "addNewRowToConstraints"
    /\ ret.idx = Len(arm[ret.m].constraints) + 1
    /\ arm[ret.m].rows.d_dotPhiq_ddq_times_dq
          = Len(arm[ret.m].constraints) + 2

\* C17: through any sequence of evaluateError calls the model's q and dotq
\* keep the length nDOFs = |Euclidean DOFs| + |relative DOFs|, and a call
\* with q_k and dq_k of one non-zero length other than nDOFs is rejected as
\* a length mismatch.
C17_StateVectorsKeepLength ==
    arm["a"].ok =>
        LET m == arm["a"]
            nDOFs == Len(m.DOFs) + Len(m.rDOFs)
        IN  /\ Len(m.q) = nDOFs
            /\ Len(m.dotq) = nDOFs
            /\ (ret.op = "evaluateError" /\ ret.n = ret.ndq /\ ret.n > 0
                /\ ret.n # nDOFs) => ret.status \in LengthErrors

AssemblyCalls == {"assembleRigidMBS(armi)", "assembleRigidMBS"}

\* C18: a successful assembleRigidMBS call on a definition whose closure
\* constraints are in, or one that follows another call directly, leaves the
\* definition and its constraint list as they were; two successive calls
\* return the same Euclidean DOF list; addBody is rejected from the first
\* success on and accepted again after clear().
C18_ClosureConstraintsOnce ==
    [][/\ (ret'.op \in AssemblyCalls /\ ret'.ok
           /\ (def.already_added_fixed_len_constraints
               \/ ret.op \in AssemblyCalls)) =>
             /\ def'.constraints = def.constraints
             /\ def' = def
       /\ (ret'.op \in AssemblyCalls /\ ret'.ok) =>
             def'.already_added_fixed_len_constraints
       /\ (ret.op = "assembleRigidMBS(armi)" /\ ret.ok
           /\ ret'.op = "assembleRigidMBS(armi)") =>
             (ret'.ok /\ ret'.DOFs = ret.DOFs)
       /\ ret'.op = "addBody" =>
             /\ ret'.ok = ~def.already_added_fixed_len_constraints
             /\ ~ret'.ok => def' = def
       /\ ret'.op = "clear" =>
             /\ ~def'.already_added_fixed_len_constraints
             /\ def'.constraints = <<>>
      ]_vars

\* C18 happens: assembleRigidMBS succeeded on a definition whose closure
\* constraints an earlier call had put in, the model built in between still
\* holding the same list
C18_Witness ==
    /\ ret.op = "assembleRigidMBS(armi)" /\ ret.ok
    /\ ret.DOFs # <<>>
    /\ def.already_added_fixed_len_constraints
    /\ Len(def.constraints) >= 1
    /\ arm["a"].ok
    /\ arm["a"].constraints = def.constraints

====
